---- MODULE Spec2Model ----
(***************************************************************************)
(* Model of airflow/dags/runner_nutrition_dag.py: the extract_youtube task *)
(* (topic queries, keyword filter, de-duplication, XCom push) and the      *)
(* load_bronze task (ledger pre-filter, MERGE into raw_youtube_videos,     *)
(* INSERT into stg_processed_videos, commit) with Airflow's task retries.  *)
(***************************************************************************)
EXTENDS Integers, Sequences, FiniteSets, Bags, TLC

VARIABLES
    \* ---- extract_youtube ----
    epc,          \* position of extract_youtube: "idle", "querying", "done", "raised"
    qi,           \* number of SEARCH_QUERIES already handled by the for loop
    all_videos,   \* the accumulation list (line 141)
    responses,    \* history: what the search API did for each handled query
    xcom,         \* XCom of the extract_youtube task instance (dict key -> value)
    eret,         \* return value of extract_youtube
    \* ---- load_bronze ----
    lpc,          \* position of load_bronze: "idle", "pull", "merge", "insert", "commit", "ended"
    autocommit,   \* autocommit mode of the sessions get_snowflake_connection opens
    new_videos,   \* line 221
    vi,           \* index in new_videos of the record the for loop is at
    raw,          \* committed rows of raw_youtube_videos (a bag)
    ledger,       \* committed rows of stg_processed_videos (a bag)
    sess_raw,     \* raw_youtube_videos as the open session sees it
    sess_ledger,  \* stg_processed_videos as the open session sees it
    try_number,   \* Airflow try number of the load_bronze task instance
    outcome,      \* how the last attempt ended: "none", "success", "failed"
    lret,         \* return value of load_bronze
    \* ---- history of the load runs ----
    writes,       \* write statements the current attempt has executed
    rawBefore,    \* raw when the current attempt began
    ledgerBefore, \* ledger when the current attempt began
    raw0,         \* raw when the first attempt of the task instance began
    ledger0,      \* ledger when the first attempt of the task instance began
    failedWrite,  \* an attempt of this task instance failed at a write
    prev          \* batch and outcome of the attempt that ended before this one

evars == <<epc, qi, all_videos, responses, eret>>
lvars == <<lpc, autocommit, new_videos, vi, raw, ledger, sess_raw, sess_ledger,
           try_number, outcome, lret, writes, rawBefore, ledgerBefore, raw0,
           ledger0, failedWrite, prev>>
vars == <<evars, xcom, lvars>>

(***************************************************************************)
(* Bounds of the model.                                                    *)
(***************************************************************************)
\* items the search API returns in one extract_youtube run, all queries together
MaxTotalItems == 3
\* records in the batch an upstream extract_youtube run pushed
MaxBatch == 2

(***************************************************************************)
(* Python strings.                                                         *)
(***************************************************************************)
UpperChars == "ABCDEFGHIJKLMNOPQRSTUVWXYZ"
LowerChars == "abcdefghijklmnopqrstuvwxyz"
Digits == "0123456789"

CharAt(s, k) == SubSeq(s, k, k)

\* s[:n]
Take(s, n) == SubSeq(s, 1, IF Len(s) < n THEN Len(s) ELSE n)

\* position of the one-character string c in alphabet, 0 when absent
IndexOf(c, alphabet) ==
    IF \E k \in 1..Len(alphabet) : CharAt(alphabet, k) = c
    THEN CHOOSE k \in 1..Len(alphabet) : CharAt(alphabet, k) = c
    ELSE 0

LowerChar(c) ==
    IF IndexOf(c, UpperChars) = 0 THEN c ELSE CharAt(LowerChars, IndexOf(c, UpperChars))

RECURSIVE Lower(_)
\* str.lower()
Lower(s) == IF s = "" THEN "" ELSE LowerChar(CharAt(s, 1)) \o Lower(SubSeq(s, 2, Len(s)))

RECURSIVE Replace(_, _, _)
\* str.replace(old, new) for one-character old
Replace(s, old, new) ==
    IF s = "" THEN ""
    ELSE (IF CharAt(s, 1) = old THEN new ELSE CharAt(s, 1))
         \o Replace(SubSeq(s, 2, Len(s)), old, new)

\* `sub in s`
Contains(sub, s) ==
    \E k \in 1..(Len(s) - Len(sub) + 1) : SubSeq(s, k, k + Len(sub) - 1) = sub

RECURSIVE Join(_, _)
\* sep.join(list)
Join(sep, list) ==
    IF list = <<>> THEN ""
    ELSE IF Len(list) = 1 THEN list[1]
    ELSE list[1] \o sep \o Join(sep, Tail(list))

IsDigits(s) == s # "" /\ \A k \in 1..Len(s) : IndexOf(CharAt(s, k), Digits) # 0

RECURSIVE ParseInt(_)
\* int(s) for a string of decimal digits
ParseInt(s) ==
    IF s = "" THEN 0
    ELSE 10 * ParseInt(SubSeq(s, 1, Len(s) - 1)) + (IndexOf(CharAt(s, Len(s)), Digits) - 1)

(***************************************************************************)
(* Configuration.                                                          *)
(***************************************************************************)
FOOD_KEYWORDS ==
    << "carb", "carbs", "carbohydrate", "protein", "fat", "banana",
       "oatmeal", "pasta", "rice", "egg", "chicken", "gel", "energy gel",
       "bar", "protein bar", "coffee", "sports drink", "hydration",
       "yogurt", "milk", "sweet potato", "quinoa", "salmon", "avocado",
       "nuts", "berries", "bread", "bagel", "smoothie", "fruit" >>

SEARCH_QUERIES ==
    << "runner nutrition food", "marathon nutrition", "running diet",
       "ultramarathon fueling", "what runners eat" >>

\* default_args['retries']
retries == 2

(***************************************************************************)
(* Items of a search response: Python dicts, modelled as functions whose   *)
(* DOMAIN is the set of keys present.                                      *)
(***************************************************************************)
GelItem ==
    [id |-> [videoId |-> "v1"],
     snippet |-> [title |-> "Marathon Gel", description |-> "Energy gel tips",
                  channelTitle |-> "RunLab", publishedAt |-> "2024-05-02T07:30:00Z"]]
BananaItem ==
    [id |-> [videoId |-> "v1"],
     snippet |-> [title |-> "Banana Fuel",
                  channelTitle |-> "Fuelling", publishedAt |-> "2023-11-20T18:00:00Z"]]
BarItem ==
    [id |-> [videoId |-> "v2"],
     snippet |-> [title |-> "PROTEIN BAR", description |-> "",
                  channelTitle |-> "RunLab", publishedAt |-> "2024-05-03T09:15:00Z"]]
ShoeItem ==
    [id |-> [videoId |-> "v3"],
     snippet |-> [title |-> "Long Run Shoes", description |-> "Kit review",
                  channelTitle |-> "RunLab", publishedAt |-> "2024-05-04T12:00:00Z"]]
NoTitleItem ==
    [id |-> [videoId |-> "v3"],
     snippet |-> [description |-> "Rice bowl",
                  channelTitle |-> "RunLab", publishedAt |-> "2024-05-05T12:00:00Z"]]
NoVideoIdItem ==
    [id |-> [kind |-> "youtube#channel"],
     snippet |-> [title |-> "Pasta Night", description |-> "",
                  channelTitle |-> "Fuelling", publishedAt |-> "2024-05-06T12:00:00Z"]]
QuinoaItem ==
    [id |-> [videoId |-> "v3"],
     snippet |-> [title |-> "Quinoa salad", description |-> "",
                  channelTitle |-> "Fuelling", publishedAt |-> "2024-05-07T06:00:00Z"]]

\* what the search API may return as one element of response['items']
Items == {GelItem, BananaItem, BarItem, ShoeItem, NoTitleItem, NoVideoIdItem}

Has(dict, key) == key \in DOMAIN dict

\* dict.get(key, default)
Get(dict, key, default) == IF Has(dict, key) THEN dict[key] ELSE default

(***************************************************************************)
(* extract_youtube: the body of the loop over response['items'].           *)
(***************************************************************************)
\* lines 155-157
ItemText(item) ==
    Lower(item.snippet.title) \o " " \o Lower(Get(item.snippet, "description", ""))

\* line 159
mentioned_foods(item) == SelectSeq(FOOD_KEYWORDS, LAMBDA f : Contains(f, ItemText(item)))

\* the subscripts of lines 155 and 163-170 that raise KeyError or ValueError
TitleRaises(item) == ~Has(item, "snippet") \/ ~Has(item.snippet, "title")

RecordRaises(item) ==
    \/ ~Has(item, "id") \/ ~Has(item.id, "videoId")
    \/ ~Has(item.snippet, "channelTitle")
    \/ ~Has(item.snippet, "publishedAt")
    \/ ~IsDigits(Take(item.snippet.publishedAt, 4))

\* lines 162-171: the dict appended to all_videos
CandidateRecord(item) ==
    [video_id        |-> item.id.videoId,
     title           |-> item.snippet.title,
     description     |-> Get(item.snippet, "description", ""),
     channel_title   |-> item.snippet.channelTitle,
     published_at    |-> Replace(Take(item.snippet.publishedAt, 19), "T", " "),
     url             |-> "https://youtube.com/watch?v=" \o item.id.videoId,
     mentioned_foods |-> Join(",", mentioned_foods(item)),
     year            |-> ParseInt(Take(item.snippet.publishedAt, 4))]

\* lines 155-171: one iteration of the loop over the items
HandleItem(item) ==
    IF TitleRaises(item) THEN [effect |-> "raise"]
    ELSE IF mentioned_foods(item) = <<>> THEN [effect |-> "skip"]
    ELSE IF RecordRaises(item) THEN [effect |-> "raise"]
    ELSE [effect |-> "append", video |-> CandidateRecord(item)]

\* HandleItem, tabulated over the items the API can return
ItemEffect == [item \in Items |-> HandleItem(item)]

RECURSIVE ProcessItems(_, _)
\* lines 154-171 inside the try of line 144: the items are handled in order;
\* an exception leaves the loop with what was appended so far
ProcessItems(items, acc) ==
    IF items = <<>> THEN [videos |-> acc, raised |-> FALSE]
    ELSE LET done == ItemEffect[Head(items)] IN
         IF done.effect = "raise" THEN [videos |-> acc, raised |-> TRUE]
         ELSE IF done.effect = "skip" THEN ProcessItems(Tail(items), acc)
         ELSE ProcessItems(Tail(items), Append(acc, done.video))

RECURSIVE DedupFrom(_, _, _)
\* lines 178-183
DedupFrom(list, seen, unique_videos) ==
    IF list = <<>> THEN unique_videos
    ELSE LET v == Head(list) IN
         IF v.video_id \notin seen
         THEN DedupFrom(Tail(list), seen \cup {v.video_id}, Append(unique_videos, v))
         ELSE DedupFrom(Tail(list), seen, unique_videos)

\* a de-duplication through a dict keyed by video_id: the position of the
\* first record of each video_id, the contents of the last
DeduplicateByDict(list) ==
    LET firsts == DedupFrom(list, {}, <<>>)
        last(id) == CHOOSE k \in 1..Len(list) :
                        /\ list[k].video_id = id
                        /\ \A j \in (k + 1)..Len(list) : list[j].video_id # id
    IN  [k \in 1..Len(firsts) |-> list[last(firsts[k].video_id)]]

Deduplicate(list) == DedupFrom(list, {}, <<>>)

(***************************************************************************)
(* The search API.                                                         *)
(***************************************************************************)
RECURSIVE SeqsUpTo(_, _)
\* the sequences over S of length at most n
SeqsUpTo(S, n) ==
    IF n = 0 THEN {<<>>}
    ELSE LET shorter == SeqsUpTo(S, n - 1) IN
         shorter \cup {Append(s, x) : s \in {t \in shorter : Len(t) = n - 1}, x \in S}

RECURSIVE ItemsReturned(_)
\* number of items in the responses logged so far
ItemsReturned(log) ==
    IF log = <<>> THEN 0
    ELSE Len(Get(Head(log), "items", <<>>)) + ItemsReturned(Tail(log))

\* logged in responses for a query whose request raised
RequestError == [error |-> "HttpError"]

\* the bodies the API may answer with when the budget left is n items: a
\* body without an 'items' key, or one whose 'items' is a non-empty list
ResponsesWithin(n) ==
    {[kind |-> "youtube#searchListResponse"]}
       \cup {[items |-> s] : s \in SeqsUpTo(Items, n) \ {<<>>}}

(***************************************************************************)
(* The warehouse: raw_youtube_videos and stg_processed_videos are bags of  *)
(* rows; Snowflake enforces no key on either.                              *)
(***************************************************************************)
\* get_snowflake_connection passes no autocommit argument: the session takes
\* the mode of the account's AUTOCOMMIT parameter, which the code does not fix
AutocommitModes == {TRUE, FALSE}

\* lines 241-249: the VALUES of the MERGE's INSERT
RawRow(video) ==
    [video_id        |-> video.video_id,
     title           |-> Take(video.title, 500),
     description     |-> Take(video.description, 5000),
     channel_title   |-> Take(video.channel_title, 200),
     published_at    |-> video.published_at,
     url             |-> video.url,
     mentioned_foods |-> video.mentioned_foods,
     year            |-> video.year]

\* a plain INSERT in place of the MERGE
MergeAlwaysInserts(table, video) == table (+) SetToBag({RawRow(video)})

\* lines 232-250: MERGE ... ON target.video_id = source.video_id
\* WHEN NOT MATCHED THEN INSERT
Merge(table, video) ==
    IF \E row \in BagToSet(table) : row.video_id = video.video_id
    THEN table
    ELSE table (+) SetToBag({RawRow(video)})

\* lines 253-256: INSERT INTO stg_processed_videos
LedgerInsert(table, video) ==
    table (+) SetToBag({[video_id |-> video.video_id, processing_status |-> "SUCCESS"]})

\* a ledger query that looks for the batch's ids among the rows not marked SUCCESS
SelectExistingNotSuccess(table, video_ids) ==
    {row.video_id : row \in {r \in BagToSet(table) :
                                r.video_id \in video_ids /\ r.processing_status # "SUCCESS"}}

\* lines 214-220: SELECT video_id FROM stg_processed_videos WHERE video_id IN (...)
SelectExisting(table, video_ids) ==
    {row.video_id : row \in {r \in BagToSet(table) : r.video_id \in video_ids}}

\* line 214
VideoIds(videos) == {videos[k].video_id : k \in 1..Len(videos)}

\* a filter that keeps the whole batch
NewVideosUnfiltered(videos, existing_ids) == videos

\* line 221
NewVideos(videos, existing_ids) ==
    SelectSeq(videos, LAMBDA v : v.video_id \notin existing_ids)

\* the records an upstream extract_youtube run may have pushed
UpstreamVideos == {CandidateRecord(item) : item \in {GelItem, BananaItem, BarItem, QuinoaItem}}

\* the batches an upstream extract_youtube run may have pushed: de-duplicated lists
Batches == {b \in SeqsUpTo(UpstreamVideos, MaxBatch) : Deduplicate(b) = b}

(***************************************************************************)
(* Initial state: no task has run, both tables are empty.                   *)
(***************************************************************************)
NoXCom == <<>>

InitExtract ==
    /\ epc = "idle"
    /\ qi = 0
    /\ all_videos = <<>>
    /\ responses = <<>>
    /\ eret = 0

InitLoad ==
    /\ lpc = "idle"
    /\ autocommit \in AutocommitModes
    /\ new_videos = <<>>
    /\ vi = 0
    /\ raw = EmptyBag
    /\ ledger = EmptyBag
    /\ sess_raw = EmptyBag
    /\ sess_ledger = EmptyBag
    /\ try_number = 0
    /\ outcome = "none"
    /\ lret = 0
    /\ writes = 0
    /\ rawBefore = EmptyBag
    /\ ledgerBefore = EmptyBag
    /\ raw0 = EmptyBag
    /\ ledger0 = EmptyBag
    /\ failedWrite = FALSE
    /\ prev = [videos |-> <<>>, outcome |-> "none"]

Init == InitExtract /\ InitLoad /\ xcom = NoXCom

(***************************************************************************)
(* extract_youtube, one action per step of the task.                       *)
(***************************************************************************)
\* lines 114-141: a task instance starts, reads the watermark and builds the
\* API client; its XCom is empty
ExtractStart ==
    /\ epc \in {"idle", "done", "raised"}
    /\ epc' = "querying"
    /\ qi' = 0
    /\ all_videos' = <<>>
    /\ responses' = <<>>
    /\ xcom' = NoXCom
    /\ eret' = 0
    /\ UNCHANGED lvars

\* lines 114-125: the connection or the watermark query raises, outside any try
ExtractWatermarkFails ==
    /\ epc \in {"idle", "done", "raised"}
    /\ epc' = "raised"
    /\ qi' = 0
    /\ all_videos' = <<>>
    /\ responses' = <<>>
    /\ xcom' = NoXCom
    /\ eret' = 0
    /\ UNCHANGED lvars

\* lines 143-152, 173-175: the search request of the next query raises
SearchFails ==
    /\ epc = "querying"
    /\ qi < Len(SEARCH_QUERIES)
    /\ qi' = qi + 1
    /\ responses' = Append(responses, RequestError)
    /\ UNCHANGED <<epc, all_videos, eret, xcom, lvars>>

\* lines 143-175: the search request of the next query returns a body and
\* the loop over its items runs, to its end or to the first exception
SearchReturns ==
    /\ epc = "querying"
    /\ qi < Len(SEARCH_QUERIES)
    /\ \E response \in ResponsesWithin(MaxTotalItems - ItemsReturned(responses)) :
          /\ all_videos' = ProcessItems(Get(response, "items", <<>>), all_videos).videos
          /\ responses' = Append(responses, response)
    /\ qi' = qi + 1
    /\ UNCHANGED <<epc, eret, xcom, lvars>>

\* lines 177-190
ExtractFinish ==
    /\ epc = "querying"
    /\ qi = Len(SEARCH_QUERIES)
    /\ LET unique_videos == Deduplicate(all_videos) IN
         /\ xcom' = [videos |-> unique_videos, video_count |-> Len(unique_videos)]
         /\ eret' = Len(unique_videos)
    /\ epc' = "done"
    /\ UNCHANGED <<qi, all_videos, responses, lvars>>

NextExtract ==
    \/ ExtractStart
    \/ ExtractWatermarkFails
    \/ SearchFails
    \/ SearchReturns
    \/ ExtractFinish

SpecExtract == Init /\ [][NextExtract]_vars

(***************************************************************************)
(* load_bronze, one action per statement sent to the warehouse, and the    *)
(* scheduler around it.                                                    *)
(***************************************************************************)
\* the attempt that last ended, as the next attempt remembers it
EndedAttempt ==
    IF lpc = "ended" THEN [videos |-> xcom.videos, outcome |-> outcome]
    ELSE [videos |-> <<>>, outcome |-> "none"]

\* lines 436-440 and the DAG's dependencies: a DAG run whose extract_youtube
\* pushed `batch` schedules the first try of load_bronze
StartLoadTask ==
    /\ \/ lpc = "idle"
       \/ lpc = "ended" /\ (outcome = "success" \/ try_number > retries)
    /\ \E batch \in Batches :
          xcom' = [videos |-> batch, video_count |-> Len(batch)]
    /\ lpc' = "pull"
    /\ try_number' = 1
    /\ outcome' = "none"
    /\ new_videos' = <<>>
    /\ vi' = 0
    /\ lret' = 0
    /\ writes' = 0
    /\ rawBefore' = raw
    /\ ledgerBefore' = ledger
    /\ raw0' = raw
    /\ ledger0' = ledger
    /\ failedWrite' = FALSE
    /\ prev' = EndedAttempt
    /\ UNCHANGED <<evars, autocommit, raw, ledger, sess_raw, sess_ledger>>

\* lines 22-30: a failed try is tried again, with the same XCom, while tries are left
RetryLoadTask ==
    /\ lpc = "ended"
    /\ outcome = "failed"
    /\ try_number <= retries
    /\ lpc' = "pull"
    /\ try_number' = try_number + 1
    /\ outcome' = "none"
    /\ new_videos' = <<>>
    /\ vi' = 0
    /\ lret' = 0
    /\ writes' = 0
    /\ rawBefore' = raw
    /\ ledgerBefore' = ledger
    /\ prev' = EndedAttempt
    /\ UNCHANGED <<evars, xcom, autocommit, raw, ledger, sess_raw, sess_ledger,
                   raw0, ledger0, failedWrite>>

\* lines 202-228: pull the batch, query the ledger, filter
LoadPull ==
    /\ lpc = "pull"
    /\ LET videos == xcom.videos
           existing_ids == SelectExisting(ledger, VideoIds(videos))
           new == NewVideos(videos, existing_ids)
       IN  IF videos = <<>> \/ new = <<>>
           THEN /\ lpc' = "ended"
                /\ outcome' = "success"
                /\ lret' = 0
                /\ UNCHANGED <<new_videos, vi, sess_raw, sess_ledger>>
           ELSE /\ lpc' = "merge"
                /\ new_videos' = new
                /\ vi' = 1
                /\ sess_raw' = raw
                /\ sess_ledger' = ledger
                /\ UNCHANGED <<outcome, lret>>
    /\ UNCHANGED <<evars, xcom, autocommit, raw, ledger, try_number, writes,
                   rawBefore, ledgerBefore, raw0, ledger0, failedWrite, prev>>

\* an exception leaves load_bronze: the try has failed, and the work the
\* session had not committed is gone with the session
Raise ==
    /\ lpc' = "ended"
    /\ outcome' = "failed"
    /\ sess_raw' = EmptyBag
    /\ sess_ledger' = EmptyBag
    /\ UNCHANGED <<evars, xcom, autocommit, new_videos, vi, raw, ledger, try_number,
                   lret, writes, rawBefore, ledgerBefore, raw0, ledger0, prev>>

\* lines 210-220: the connection or the ledger query raises
LoadReadFails ==
    /\ lpc = "pull"
    /\ xcom.videos # <<>>
    /\ Raise
    /\ UNCHANGED failedWrite

\* lines 232-250: the MERGE of the record the loop is at
LoadMerge ==
    /\ lpc = "merge"
    /\ sess_raw' = Merge(sess_raw, new_videos[vi])
    /\ raw' = IF autocommit THEN sess_raw' ELSE raw
    /\ writes' = writes + 1
    /\ lpc' = "insert"
    /\ UNCHANGED <<evars, xcom, autocommit, new_videos, vi, ledger, sess_ledger,
                   try_number, outcome, lret, rawBefore, ledgerBefore, raw0,
                   ledger0, failedWrite, prev>>

\* lines 232-250: the MERGE raises
LoadMergeFails ==
    /\ lpc = "merge"
    /\ Raise
    /\ failedWrite' = TRUE

\* lines 253-256: the ledger INSERT of the record the loop is at
LoadInsert ==
    /\ lpc = "insert"
    /\ sess_ledger' = LedgerInsert(sess_ledger, new_videos[vi])
    /\ ledger' = IF autocommit THEN sess_ledger' ELSE ledger
    /\ writes' = writes + 1
    /\ IF vi < Len(new_videos)
       THEN lpc' = "merge" /\ vi' = vi + 1
       ELSE lpc' = "commit" /\ vi' = vi
    /\ UNCHANGED <<evars, xcom, autocommit, new_videos, raw, sess_raw,
                   try_number, outcome, lret, rawBefore, ledgerBefore, raw0,
                   ledger0, failedWrite, prev>>

\* lines 253-256: the ledger INSERT raises
LoadInsertFails ==
    /\ lpc = "insert"
    /\ Raise
    /\ failedWrite' = TRUE

\* lines 258-263
LoadCommit ==
    /\ lpc = "commit"
    /\ raw' = sess_raw
    /\ ledger' = sess_ledger
    /\ sess_raw' = EmptyBag
    /\ sess_ledger' = EmptyBag
    /\ lret' = Len(new_videos)
    /\ outcome' = "success"
    /\ lpc' = "ended"
    /\ UNCHANGED <<evars, xcom, autocommit, new_videos, vi, try_number, writes,
                   rawBefore, ledgerBefore, raw0, ledger0, failedWrite, prev>>

\* line 258: the commit raises
LoadCommitFails ==
    /\ lpc = "commit"
    /\ Raise
    /\ UNCHANGED failedWrite

NextLoad ==
    \/ StartLoadTask
    \/ RetryLoadTask
    \/ LoadPull
    \/ LoadReadFails
    \/ LoadMerge
    \/ LoadMergeFails
    \/ LoadInsert
    \/ LoadInsertFails
    \/ LoadCommit
    \/ LoadCommitFails

SpecLoad == Init /\ [][NextLoad]_vars

(***************************************************************************)
(* Vocabulary of the properties.                                           *)
(***************************************************************************)
\* the video_ids that have a row in a table
Ids(table) == {row.video_id : row \in BagToSet(table)}

\* the video_ids the ledger holds with status SUCCESS
SuccessIds(table) ==
    {row.video_id : row \in {r \in BagToSet(table) : r.processing_status = "SUCCESS"}}

\* number of rows of a table with the given video_id
RowCount(table, id) ==
    LET rows == {r \in BagToSet(table) : r.video_id = id}
    IN  BagCardinality([r \in rows |-> table[r]])

Range(seq) == {seq[k] : k \in 1..Len(seq)}

\* a load_bronze attempt has begun (and perhaps ended)
InRun == lpc # "idle"

RunSucceeded == lpc = "ended" /\ outcome = "success"

RunFailed == lpc = "ended" /\ outcome = "failed"

(***************************************************************************)
(* Properties of load_bronze.                                              *)
(***************************************************************************)
\* C1: a load_bronze run that follows a successful run of the same batch
\* executes no write statement, leaves raw_youtube_videos and
\* stg_processed_videos as the first run left them and returns 0; a run
\* of the empty batch likewise writes nothing, succeeds and returns 0.
C1_Idempotent ==
    InRun =>
      /\ (prev.outcome = "success" /\ prev.videos = xcom.videos) =>
            /\ writes = 0
            /\ raw = rawBefore
            /\ ledger = ledgerBefore
            /\ lpc \in {"pull", "ended"}
            /\ RunSucceeded => lret = 0
      /\ xcom.videos = <<>> =>
            /\ writes = 0
            /\ raw = rawBefore
            /\ ledger = ledgerBefore
            /\ lpc = "ended" => (outcome = "success" /\ lret = 0)

\* a second successful run of a two-record batch whose first run loaded it
C1_Witness ==
    /\ RunSucceeded
    /\ prev.outcome = "success"
    /\ prev.videos = xcom.videos
    /\ Len(xcom.videos) = 2
    /\ VideoIds(xcom.videos) \subseteq Ids(raw)
    /\ VideoIds(xcom.videos) \subseteq Ids(ledger)

\* C2: a load_bronze run that fails leaves raw_youtube_videos and
\* stg_processed_videos as they were when the run began.
C2_BatchAtomic ==
    RunFailed => (raw = rawBefore /\ ledger = ledgerBefore)

\* C3: raw_youtube_videos never holds two rows with one video_id, in the
\* committed table or in a session's view of it, and no run adds a row for
\* a video_id the ledger held with SUCCESS when the run began.
C3_UniqueRows ==
    /\ \A id \in Ids(raw) : RowCount(raw, id) = 1
    /\ \A id \in Ids(sess_raw) : RowCount(sess_raw, id) = 1
    /\ InRun =>
          \A id \in (Ids(raw) \cup Ids(sess_raw)) \ Ids(rawBefore) :
              id \notin SuccessIds(ledgerBefore)

\* the MERGE of a record whose video_id already had a row has been executed
C3_Witness ==
    /\ lpc = "insert"
    /\ new_videos[vi].video_id \in Ids(rawBefore)
    /\ RowCount(raw, new_videos[vi].video_id) = 1

\* C6: the value a successful load_bronze run returns is the number of
\* rows the run added to raw_youtube_videos.
C6_ReturnsInserted ==
    RunSucceeded => lret = BagCardinality(raw) - BagCardinality(rawBefore)

\* what one failure-free run of the batch makes of the tables t_raw, t_ledger
CleanRaw(t_raw, t_ledger, videos) ==
    t_raw (+) SetToBag({RawRow(v) : v \in {w \in Range(videos) :
                          w.video_id \notin Ids(t_ledger) \cup Ids(t_raw)}})

CleanLedger(t_ledger, videos) ==
    t_ledger (+) SetToBag({[video_id |-> id, processing_status |-> "SUCCESS"] :
                             id \in VideoIds(videos) \ Ids(t_ledger)})

\* C8: when a try of load_bronze failed at a MERGE or at a ledger INSERT
\* and a later try of the same task instance succeeds, the tables are what
\* one failure-free run of the batch would have made of the tables the
\* first try found, and every video_id of the batch that the ledger did
\* not hold has exactly one row in each table.
C8_RetrySafe ==
    (RunSucceeded /\ failedWrite) =>
      /\ raw = CleanRaw(raw0, ledger0, xcom.videos)
      /\ ledger = CleanLedger(ledger0, xcom.videos)
      /\ \A id \in VideoIds(xcom.videos) \ Ids(ledger0) :
            /\ RowCount(raw, id) = 1
            /\ RowCount(ledger, id) = 1
            /\ id \in SuccessIds(ledger)

\* a retry succeeded after a try that had committed part of a two-record batch
C8_Witness ==
    /\ RunSucceeded
    /\ failedWrite
    /\ try_number > 1
    /\ Len(xcom.videos) = 2
    /\ rawBefore # raw0
    /\ raw # rawBefore

\* C10: whenever no run is in progress every video_id with a row in
\* raw_youtube_videos has a SUCCESS row in stg_processed_videos, and no
\* step removes a video_id from stg_processed_videos.
C10_LedgerCoversRaw ==
    [][ /\ lpc' \in {"idle", "ended"} => Ids(raw') \subseteq SuccessIds(ledger')
        /\ Ids(ledger) \subseteq Ids(ledger') ]_vars

(***************************************************************************)
(* Properties of extract_youtube.                                          *)
(***************************************************************************)
ExtractDone == epc = "done"

\* index of the first record of list with the given video_id
FirstIndex(list, id) ==
    CHOOSE k \in 1..Len(list) :
        /\ list[k].video_id = id
        /\ \A j \in 1..(k - 1) : list[j].video_id # id

\* C4: the list pushed as 'videos' holds one record for each video_id of
\* the accumulated list and no other, each the first record of its
\* video_id in the accumulated list, in the order of those first records;
\* 'video_count' and the return value are the length of that list.
C4_Deduplicated ==
    ExtractDone =>
      LET unique == xcom.videos IN
      /\ VideoIds(unique) = VideoIds(all_videos)
      /\ \A j, k \in 1..Len(unique) : unique[j].video_id = unique[k].video_id => j = k
      /\ \A k \in 1..Len(unique) : unique[k] = all_videos[FirstIndex(all_videos, unique[k].video_id)]
      /\ \A j, k \in 1..Len(unique) :
            j < k => FirstIndex(all_videos, unique[j].video_id)
                       < FirstIndex(all_videos, unique[k].video_id)
      /\ xcom.video_count = Len(unique)
      /\ eret = Len(unique)

\* a video_id came back twice with different contents, another one in between
C4_Witness ==
    /\ ExtractDone
    /\ Len(all_videos) = 3
    /\ all_videos[1].video_id = all_videos[3].video_id
    /\ all_videos[1] # all_videos[3]
    /\ all_videos[2].video_id # all_videos[1].video_id
    /\ Len(xcom.videos) = 2

\* the item has every field lines 155-170 subscript
WellFormed(item) ==
    /\ Has(item, "id") /\ Has(item.id, "videoId")
    /\ Has(item, "snippet")
    /\ {"title", "channelTitle", "publishedAt"} \subseteq DOMAIN item.snippet
    /\ IsDigits(Take(item.snippet.publishedAt, 4))

\* the keywords that occur in the lower-cased "title description", in list order
KeywordsIn(title, description) ==
    SelectSeq(FOOD_KEYWORDS, LAMBDA f : Contains(f, Lower(title) \o " " \o Lower(description)))

Matching(item) ==
    /\ WellFormed(item)
    /\ KeywordsIn(item.snippet.title, Get(item.snippet, "description", "")) # <<>>

\* the queries whose search request returned
Succeeded == {q \in 1..Len(responses) : ~Has(responses[q], "error")}

ItemsOf(q) == Get(responses[q], "items", <<>>)

RECURSIVE MatchingRecords(_)
\* the records of the matching items of the queries 1..q that succeeded, in order
MatchingRecords(q) ==
    IF q = 0 THEN <<>>
    ELSE MatchingRecords(q - 1) \o
         (IF q \in Succeeded
          THEN [k \in 1..Len(SelectSeq(ItemsOf(q), Matching)) |->
                   CandidateRecord(SelectSeq(ItemsOf(q), Matching)[k])]
          ELSE <<>>)

\* the first record of each video_id of list, in order
FirstOccurrences(list) ==
    LET firsts == {k \in 1..Len(list) : \A j \in 1..(k - 1) : list[j].video_id # list[k].video_id}
        nth[n \in 0..Cardinality(firsts)] ==
            IF n = 0 THEN 0
            ELSE CHOOSE k \in firsts : k > nth[n - 1] /\ \A j \in firsts : j > nth[n - 1] => k <= j
    IN  [n \in 1..Cardinality(firsts) |-> list[nth[n]]]

\* C5: whichever search requests raise, extract_youtube issues all the
\* queries, does not raise once the queries have begun, and pushes the
\* de-duplicated union of the matching items of the queries whose request
\* returned.
C5_PartialFailure ==
    /\ epc = "raised" => responses = <<>>
    /\ ExtractDone =>
          /\ Len(responses) = Len(SEARCH_QUERIES)
          /\ xcom.videos = FirstOccurrences(MatchingRecords(Len(responses)))

\* C7: every matching item of a response is in the output, by its own
\* record or, when its video_id came earlier, by that earlier record,
\* whatever malformed items the response holds before or after it.
C7_MalformedItemSkipped ==
    ExtractDone =>
      \A q \in Succeeded : \A k \in 1..Len(ItemsOf(q)) :
          Matching(ItemsOf(q)[k]) =>
            /\ CandidateRecord(ItemsOf(q)[k]) \in Range(all_videos)
            /\ ItemsOf(q)[k].id.videoId \in VideoIds(xcom.videos)

\* C9: a well-formed returned item is kept exactly when a keyword occurs
\* in its lower-cased title and description, and the mentioned_foods of
\* every record kept is the comma-joined list of the keywords that occur,
\* in FOOD_KEYWORDS order, which is not empty.
C9_KeywordFilter ==
    ExtractDone =>
      /\ \A q \in Succeeded : \A k \in 1..Len(ItemsOf(q)) :
            WellFormed(ItemsOf(q)[k]) =>
              (CandidateRecord(ItemsOf(q)[k]) \in Range(all_videos)
                 <=> Matching(ItemsOf(q)[k]))
      /\ \A v \in Range(all_videos) \cup Range(xcom.videos) :
            /\ KeywordsIn(v.title, v.description) # <<>>
            /\ v.mentioned_foods = Join(",", KeywordsIn(v.title, v.description))

====
